---- MODULE Spec2Model ----
(***************************************************************************)
(* A model of test-project: the User / Admin entities (models.py), the     *)
(* service functions (service.py) and the utility functions (utils.py).    *)
(*                                                                         *)
(* Texts are sequences of one-character strings.  Instances live in a heap *)
(* (a sequence of objects, a reference is an index); every call leaves a   *)
(* record of itself in `last`: the operation, its arguments, the value it  *)
(* returned and the exception it raised, if any.                           *)
(***************************************************************************)
EXTENDS Integers, Sequences, FiniteSets, TLC

(***************************************************************************)
(* Bounds of the model.                                                    *)
(***************************************************************************)
MaxObjs == 2        \* instances that are ever constructed
MaxPromotes == 2    \* promote() calls on one instance
MaxTextLen == 3     \* length of the generated utility inputs
MaxLenArg == 3      \* largest generated max_length argument
MaxNegArg == 2      \* max_length arguments go down to -MaxNegArg

(***************************************************************************)
(* Python values.                                                          *)
(***************************************************************************)
NoneVal == [tag |-> "None"]
Absent == [tag |-> "absent"]      \* an argument the caller did not pass
Raised == [tag |-> "raise"]       \* no value: the call raised
StrVal(s) == [tag |-> "str", val |-> s]
IntVal(n) == [tag |-> "int", val |-> n]
BoolVal(b) == [tag |-> "bool", val |-> b]
RefVal(i) == [tag |-> "ref", val |-> i]

NoError == "none"
AttributeError == "AttributeError"

Min(a, b) == IF a < b THEN a ELSE b
Max(a, b) == IF a > b THEN a ELSE b

\* a parameter with a default value
ArgOr(arg, default) == IF arg = Absent THEN default ELSE arg.val

(***************************************************************************)
(* Inputs.                                                                 *)
(***************************************************************************)
Names == {<<"A">>, <<"B", "o">>}
Emails == {<<"a", "@", "b", ".", "c">>}
LevelArgs == {Absent, IntVal(-1), IntVal(0), IntVal(1)}

(***************************************************************************)
(* models.py                                                               *)
(***************************************************************************)
VARIABLES heap,        \* the instances constructed so far
          Admin_role,  \* the class attribute Admin.role
          level0,      \* history: the level each instance was constructed with
          promotes,    \* history: the promote() calls made on each instance
          last         \* the last call

vars == <<heap, Admin_role, level0, promotes, last>>

\* class User / class Admin(User); str is a builtin
Bases == [User |-> "object", Admin |-> "User", str |-> "object"]

\* the names each class body defines
ClassAttrs(cls) ==
    CASE cls = "User" -> {"__init__", "greet"}
      [] cls = "Admin" -> {"role", "__init__", "promote"}
      [] OTHER -> {}

\* attribute lookup along the base classes: the class that defines attr
RECURSIVE Resolve(_, _)
Resolve(cls, attr) ==
    IF attr \in ClassAttrs(cls) THEN cls
    ELSE IF cls = "object" THEN "object"
    ELSE Resolve(Bases[cls], attr)

HasAttr(cls, attr) == attr \in ClassAttrs(Resolve(cls, attr))

\* the class of a value
TypeOf(v) == IF v.tag = "ref" THEN heap[v.val].cls ELSE v.tag

\* User.__init__
User_init(name, email) == [name |-> name, email |-> email]

\* the default of Admin.__init__'s level
Admin_level_default == 1

\* Admin.__init__: User.__init__, then the level
Admin_init(name, email, level) ==
    User_init(name, email) @@ [level |-> ArgOr(level, Admin_level_default)]

\* greet() reading the e-mail address instead of the name
User_greet_email(self) == <<"H", "e", "l", "l", "o", ",", " ">> \o self.dict.email \o <<"!">>

\* User.greet, an f-string around the stored name
User_greet(self) == <<"H", "e", "l", "l", "o", ",", " ">> \o self.dict.name \o <<"!">>

\* obj.role: the instance's own attributes first, then the class's
GetRole(obj) ==
    IF "role" \in DOMAIN obj.dict THEN obj.dict.role
    ELSE IF Resolve(obj.cls, "role") = "Admin" THEN Admin_role
    ELSE "AttributeError"

\* promote() assigning 1 instead of adding it
Admin_promote_assign(self) == [self EXCEPT !.dict.level = 1]

\* promote() subtracting 1
Admin_promote_down(self) == [self EXCEPT !.dict.level = @ - 1]

\* promote() that also gives the instance a role of its own
Admin_promote_role(self) ==
    [cls |-> self.cls, dict |-> [role |-> "superadmin"] @@ [self.dict EXCEPT !.level = @ + 1]]

\* Admin.promote: self.level += 1
Admin_promote(self) == [self EXCEPT !.dict.level = @ + 1]

Refs == 1 .. Len(heap)
Admins == {i \in Refs : heap[i].cls = "Admin"}

Call(op, args, ret, exc) == [op |-> op, args |-> args, ret |-> ret, exc |-> exc]

\* a new instance of cls with attributes dict is put on the heap
New(cls, dict) ==
    /\ Len(heap) < MaxObjs
    /\ heap' = Append(heap, [cls |-> cls, dict |-> dict])
    /\ level0' = Append(level0, IF "level" \in DOMAIN dict THEN dict.level ELSE 0)
    /\ promotes' = Append(promotes, 0)
    /\ UNCHANGED Admin_role

\* User(name, email)
ConstructUser ==
    \E name \in Names, email \in Emails :
        /\ New("User", User_init(name, email))
        /\ last' = Call("User", <<StrVal(name), StrVal(email)>>, RefVal(Len(heap) + 1), NoError)

\* Admin(name, email) and Admin(name, email, level)
ConstructAdmin ==
    \E name \in Names, email \in Emails, level \in LevelArgs :
        /\ New("Admin", Admin_init(name, email, level))
        /\ last' = Call("Admin", <<StrVal(name), StrVal(email), level>>, RefVal(Len(heap) + 1), NoError)

\* u.greet()
Greet ==
    \E i \in Refs :
        /\ HasAttr(heap[i].cls, "greet")
        /\ last' = Call("greet", <<RefVal(i)>>, StrVal(User_greet(heap[i])), NoError)
        /\ UNCHANGED <<heap, Admin_role, level0, promotes>>

\* promote() on a level that all instances share
Promote_shared(i) ==
    /\ i \in Admins
    /\ promotes[i] < MaxPromotes
    /\ heap' = [j \in Refs |-> IF heap[j].cls = "Admin" THEN Admin_promote(heap[j]) ELSE heap[j]]
    /\ promotes' = [promotes EXCEPT ![i] = @ + 1]
    /\ last' = Call("promote", <<RefVal(i)>>, NoneVal, NoError)
    /\ UNCHANGED <<Admin_role, level0>>

\* a.promote()
Promote(i) ==
    /\ i \in Admins
    /\ promotes[i] < MaxPromotes
    /\ heap' = [heap EXCEPT ![i] = Admin_promote(@)]
    /\ promotes' = [promotes EXCEPT ![i] = @ + 1]
    /\ last' = Call("promote", <<RefVal(i)>>, NoneVal, NoError)
    /\ UNCHANGED <<Admin_role, level0>>

(***************************************************************************)
(* service.py                                                              *)
(***************************************************************************)
\* create_user(name, email)
CreateUser ==
    \E name \in Names, email \in Emails :
        /\ New("User", User_init(name, email))
        /\ last' = Call("create_user", <<StrVal(name), StrVal(email)>>, RefVal(Len(heap) + 1), NoError)

\* the default of create_admin's level
create_admin_level_default == 1

\* create_admin that does not pass its level on
create_admin_level_dropped(level) == Absent

\* create_admin(name, email, level=1): the level is always passed on to Admin
create_admin_level(level) == IntVal(ArgOr(level, create_admin_level_default))

CreateAdmin ==
    \E name \in Names, email \in Emails, level \in LevelArgs :
        /\ New("Admin", Admin_init(name, email, create_admin_level(level)))
        /\ last' = Call("create_admin", <<StrVal(name), StrVal(email), level>>, RefVal(Len(heap) + 1), NoError)

\* get_greeting that answers None for a user without greet
get_greeting_lenient(user) ==
    IF HasAttr(TypeOf(user), "greet")
    THEN [ret |-> StrVal(User_greet(heap[user.val])), exc |-> NoError]
    ELSE [ret |-> NoneVal, exc |-> NoError]

\* get_greeting(user): user.greet(), whatever user is
get_greeting(user) ==
    IF HasAttr(TypeOf(user), "greet")
    THEN [ret |-> StrVal(User_greet(heap[user.val])), exc |-> NoError]
    ELSE [ret |-> Raised, exc |-> AttributeError]

GetGreeting ==
    \E user \in {RefVal(i) : i \in Refs} \cup {StrVal(n) : n \in Names} :
        /\ last' = Call("get_greeting", <<user>>, get_greeting(user).ret, get_greeting(user).exc)
        /\ UNCHANGED <<heap, Admin_role, level0, promotes>>

(***************************************************************************)
(* utils.py                                                                *)
(***************************************************************************)
MAX_NAME_LENGTH == 100

\* needle in hay, for two texts: needle occurs in hay as a substring
In(needle, hay) ==
    \E k \in 0 .. (Len(hay) - Len(needle)) : SubSeq(hay, k + 1, k + Len(needle)) = needle

\* validate_email with "or" for "and"
validate_email_or(email) == In(<<"@">>, email) \/ In(<<".">>, email)

\* validate_email(email)
validate_email(email) == In(<<"@">>, email) /\ In(<<".">>, email)

\* text[:stop]: a negative stop counts from the end of the text
SliceTo(text, stop) ==
    LET n == Len(text)
        to == IF stop < 0 THEN Max(stop + n, 0) ELSE Min(stop, n)
    IN  SubSeq(text, 1, to)

\* truncate_name cutting one character late
truncate_name_late(name, max_length) ==
    LET m == ArgOr(max_length, MAX_NAME_LENGTH)
    IN  IF Len(name) > m THEN SliceTo(name, m + 1) ELSE name

\* truncate_name(name, max_length=MAX_NAME_LENGTH)
truncate_name(name, max_length) ==
    LET m == ArgOr(max_length, MAX_NAME_LENGTH)
    IN  IF Len(name) > m THEN SliceTo(name, m) ELSE name

\* a call of validate_email on one of the texts of S
ValidateEmail(S) ==
    \E email \in S :
        /\ last' = Call("validate_email", <<StrVal(email)>>, BoolVal(validate_email(email)), NoError)
        /\ UNCHANGED <<heap, Admin_role, level0, promotes>>

\* a call of truncate_name on one of the texts of S, max_length one of M
TruncateName(S, M) ==
    \E name \in S, max_length \in M :
        /\ last' = Call("truncate_name", <<StrVal(name), max_length>>,
                        StrVal(truncate_name(name, max_length)), NoError)
        /\ UNCHANGED <<heap, Admin_role, level0, promotes>>

(***************************************************************************)
(* Inputs of the utility functions: every text over Alphabet up to         *)
(* MaxTextLen characters, the texts the documentation names, and two names *)
(* at the default limit.                                                   *)
(***************************************************************************)
Alphabet == {"a", "@", "."}

RECURSIVE TextsOfLen(_)
TextsOfLen(n) ==
    IF n = 0 THEN {<<>>}
    ELSE {Append(t, c) : t \in TextsOfLen(n - 1), c \in Alphabet}

Texts == UNION {TextsOfLen(n) : n \in 0 .. MaxTextLen}

Repeat(c, n) == [i \in 1 .. n |-> c]
NameAtLimit == Repeat("x", MAX_NAME_LENGTH)
NameOverLimit == Repeat("x", MAX_NAME_LENGTH) \o <<"y">>

EmailInputs ==
    Texts \cup Emails \cup {<<"a", "b", "c">>, <<"a", ".", "b", "@", "c">>,
                             <<"a", "@", "b", ".", "c", "o", "m">>}

NameInputs ==
    Texts \cup Names \cup {NameAtLimit, NameOverLimit, <<"h", "e", "l", "l", "o">>,
                          <<"a", "b", "c", "d", "e", "f", "g", "h", "i", "j">>}

LenArgs ==
    {Absent} \cup {IntVal(m) : m \in (0 - MaxNegArg) .. MaxLenArg} \cup {IntVal(5), IntVal(10)}

Init ==
    /\ heap = <<>>
    /\ Admin_role = "admin"
    /\ level0 = <<>>
    /\ promotes = <<>>
    /\ last = Call("start", <<>>, NoneVal, NoError)

Next ==
    \/ ConstructUser
    \/ ConstructAdmin
    \/ CreateUser
    \/ CreateAdmin
    \/ Greet
    \/ \E i \in Refs : Promote(i)
    \/ GetGreeting
    \/ ValidateEmail(Emails)
    \/ TruncateName(Names, {Absent})

Spec == Init /\ [][Next]_vars

\* the utility functions alone, on all their inputs
UtilNext ==
    \/ ValidateEmail(EmailInputs)
    \/ TruncateName(NameInputs, LenArgs)

UtilSpec == Init /\ [][UtilNext]_vars

(***************************************************************************)
(* The claims.                                                             *)
(***************************************************************************)
IsPrefix(t, text) == Len(t) <= Len(text) /\ \A k \in 1 .. Len(t) : t[k] = text[k]

\* the text "Hello, <name>!", character by character
IsGreetingOf(t, name) ==
    /\ Len(t) = Len(name) + 8
    /\ SubSeq(t, 1, 7) = <<"H", "e", "l", "l", "o", ",", " ">>
    /\ SubSeq(t, 8, Len(t) - 1) = name
    /\ t[Len(t)] = "!"

\* C1: an Admin constructed with any integer level L has level L + n after n
\* promote() calls; one promote() call adds exactly 1 to the level, returns no
\* value and raises nothing.
C1_PromoteAddsOne ==
    /\ [](\A i \in Admins : heap[i].dict.level = level0[i] + promotes[i])
    /\ [][\A i \in Refs : Promote(i) =>
            /\ heap'[i].dict.level = heap[i].dict.level + 1
            /\ last'.ret = NoneVal
            /\ last'.exc = NoError]_vars

\* an Admin constructed with a negative level, promoted through zero
C1_Witness ==
    \E i \in Admins :
        /\ level0[i] < 0
        /\ promotes[i] = 2
        /\ heap[i].dict.level > 0
        /\ last = Call("promote", <<RefVal(i)>>, NoneVal, NoError)

\* C2: over any sequence of operations an Admin's level never decreases from
\* one state to the next, and it changes only across a promote() call on that
\* Admin.
C2_LevelOnlyGrowsByPromote ==
    [][\A i \in Admins :
          /\ heap'[i].dict.level >= heap[i].dict.level
          /\ heap'[i].dict.level # heap[i].dict.level =>
                 last' = Call("promote", <<RefVal(i)>>, NoneVal, NoError)]_vars

\* a greeting asked of an Admin that was promoted before
C2_Witness ==
    \E i \in Admins :
        /\ promotes[i] >= 1
        /\ last.op = "get_greeting"
        /\ last.args = <<RefVal(i)>>

\* C3: create_admin(name, email) returns an Admin of level 1,
\* create_admin(name, email, level) an Admin of exactly that level; the name
\* and the email are the supplied ones.
C3_CreateAdminLevel ==
    last.op = "create_admin" =>
        /\ last.exc = NoError
        /\ last.ret.tag = "ref"
        /\ heap[last.ret.val].cls = "Admin"
        /\ heap[last.ret.val].dict.name = last.args[1].val
        /\ heap[last.ret.val].dict.email = last.args[2].val
        /\ heap[last.ret.val].dict.level =
               (IF last.args[3] = Absent THEN 1 ELSE last.args[3].val)

\* create_admin without a level, after one with a level other than 1
C3_Witness ==
    /\ last.op = "create_admin"
    /\ last.args[3] = Absent
    /\ last.ret = RefVal(2)
    /\ heap[2].dict.level = 1
    /\ level0[1] = -1

\* C4: greet() on a User or an Admin returns "Hello, " + name + "!" with the
\* stored name, whatever the level and the promote() calls before; and
\* get_greeting(u) returns that same text for a User and for an Admin.
C4_Greeting ==
    /\ last.op = "greet" =>
           /\ last.exc = NoError
           /\ IsGreetingOf(last.ret.val, heap[last.args[1].val].dict.name)
    /\ (last.op = "get_greeting" /\ last.args[1].tag = "ref") =>
           /\ last.exc = NoError
           /\ last.ret.tag = "str"
           /\ IsGreetingOf(last.ret.val, heap[last.args[1].val].dict.name)

\* get_greeting of an Admin that was promoted before
C4_Witness ==
    \E i \in Admins :
        /\ promotes[i] >= 1
        /\ last.op = "get_greeting"
        /\ last.args = <<RefVal(i)>>
        /\ last.ret = StrVal(<<"H", "e", "l", "l", "o", ",", " ", "B", "o", "!">>)

\* C5: validate_email returns true if and only if the text holds at least one
\* '@' and at least one '.', wherever they stand; it raises nothing.
C5_ValidateEmail ==
    last.op = "validate_email" =>
        /\ last.exc = NoError
        /\ last.ret.tag = "bool"
        /\ last.ret.val =
               ((\E i \in 1 .. Len(last.args[1].val) : last.args[1].val[i] = "@")
                 /\ (\E j \in 1 .. Len(last.args[1].val) : last.args[1].val[j] = "."))
        /\ (last.args[1].val = <<"@", ".">> => last.ret.val)
        /\ (last.args[1].val = <<"a", ".", "b", "@", "c">> => last.ret.val)
        /\ (last.args[1].val = <<"a", "b", "c">> => ~last.ret.val)

\* an accepted text whose '.' stands before its '@'
C5_Witness ==
    last = Call("validate_email", <<StrVal(<<"a", ".", "b", "@", "c">>)>>, BoolVal(TRUE), NoError)

\* the first m characters of a text (none when m <= 0)
FirstChars(text, m) == [k \in 1 .. Min(Max(m, 0), Len(text)) |-> text[k]]

\* C6: for every name and every integer max_length, truncate_name returns the
\* first max_length characters of name when len(name) > max_length and name
\* itself otherwise; the default limit is 100.
C6_TruncateAnyInteger ==
    last.op = "truncate_name" =>
        LET name == last.args[1].val
            m == IF last.args[2] = Absent THEN 100 ELSE last.args[2].val
        IN  last.ret = StrVal(IF Len(name) > m THEN FirstChars(name, m) ELSE name)

\* C7: get_greeting of an argument without a greeting operation raises the
\* missing-attribute error and returns nothing, and no other call raises:
\* construction, greet, promote, validate_email and truncate_name never do.
C7_OnlyGetGreetingFails ==
    /\ (last.op = "get_greeting" /\ last.args[1].tag # "ref") =>
           (last.exc = AttributeError /\ last.ret = Raised)
    /\ last.exc # NoError =>
           (last.op = "get_greeting" /\ last.args[1].tag # "ref")
    /\ last.ret = Raised => last.exc # NoError

\* get_greeting of a plain text
C7_Witness ==
    last = Call("get_greeting", <<StrVal(<<"A">>)>>, Raised, AttributeError)

\* C8: promote() on one Admin changes that instance's level and nothing else:
\* not its name or email, and no field of any other instance; greet() and
\* get_greeting() change no field of any instance.
C8_Frame ==
    [][/\ last'.op = "promote" =>
             /\ Len(heap') = Len(heap)
             /\ \A j \in Refs :
                    IF j = last'.args[1].val
                    THEN /\ heap'[j].cls = heap[j].cls
                         /\ heap'[j].dict.name = heap[j].dict.name
                         /\ heap'[j].dict.email = heap[j].dict.email
                         /\ DOMAIN heap'[j].dict = DOMAIN heap[j].dict
                    ELSE heap'[j] = heap[j]
       /\ last'.op \in {"greet", "get_greeting"} => heap' = heap]_vars

\* two Admins constructed with the same arguments, one of them promoted
C8_Witness ==
    \E i, j \in Admins :
        /\ i # j
        /\ last = Call("promote", <<RefVal(i)>>, NoneVal, NoError)
        /\ heap[j].dict.name = heap[i].dict.name
        /\ heap[j].dict.email = heap[i].dict.email
        /\ level0[j] = level0[i]
        /\ heap[j].dict.level = level0[j]
        /\ heap[i].dict.level # heap[j].dict.level

\* C9: every Admin instance reports the role "admin", the same for all,
\* whatever its level and whatever was promoted; no operation changes it.
C9_RoleIsAdmin ==
    /\ Admin_role = "admin"
    /\ \A i \in Admins : GetRole(heap[i]) = "admin"

\* two Admins of different starting levels, one of them promoted
C9_Witness ==
    \E i, j \in Admins :
        /\ level0[i] # level0[j]
        /\ promotes[i] >= 1
        /\ promotes[j] = 0
        /\ GetRole(heap[i]) = GetRole(heap[j])

\* C10: for max_length >= 0 the result of truncate_name is a prefix of name of
\* length min(len(name), max_length), so never longer than max_length, and
\* truncating the result again gives the result.
C10_TruncatePrefix ==
    (last.op = "truncate_name" /\ ArgOr(last.args[2], 100) >= 0) =>
        LET name == last.args[1].val
            m == ArgOr(last.args[2], 100)
            r == last.ret.val
        IN  /\ IsPrefix(r, name)
            /\ Len(r) = Min(Len(name), m)
            /\ Len(r) <= m
            /\ truncate_name(r, last.args[2]) = r

\* "abcdefghij" cut to its first 5 characters
C10_Witness ==
    last = Call("truncate_name",
                <<StrVal(<<"a", "b", "c", "d", "e", "f", "g", "h", "i", "j">>), IntVal(5)>>,
                StrVal(<<"a", "b", "c", "d", "e">>), NoError)
====
